---- MODULE Spec2Model ----
(***************************************************************************)
(* Model of the secure messaging relay of src/demo_complete.py:           *)
(* MockServer (client registry + message store) and MockClient (keys,     *)
(* contact store, mock crypto, send / receive).                           *)
(*                                                                         *)
(* Strings that the code splits or slices are modelled as the sequence of *)
(* their "_"-separated fields: "sugar_x2" is <<"sugar", "x2">>.  A string  *)
(* and its field sequence determine each other, so equality of strings is *)
(* equality of field sequences.                                            *)
(***************************************************************************)
EXTENDS Naturals, Sequences, FiniteSets, TLC

VARIABLES
    clients,    \* MockServer.clients : client_id -> registered public key
    messages,   \* MockServer.messages: list of stored records
    call,       \* name of the MockServer method called last
    resp,       \* value that call returned
    contacts,   \* MockClient.contacts of each client: contact name -> x25519 key
    cres,       \* outcome of the last MockClient method called
    disk,       \* what MockServer.save_data wrote to server_data.json
    inflight    \* a send_message call under way on another connection, and its locals

vars == <<clients, messages, call, resp, contacts, cres, disk, inflight>>

server_vars == <<clients, messages, call, resp>>

client_vars == <<contacts, cres>>

\* the file on disk and the second connection: touched only by the operations below
\* that name them
env_vars == <<disk, inflight>>

----------------------------------------------------------------------------
(* Bounds and input sets                                                   *)

\* the run stops sending once the store holds this many records
MaxMessages == 2

\* client names used by the demo (run_complete_demo)
ClientIds == {"sugar", "isaac"}

\* message ids a caller may supply (uuid4 strings in the client, "msg_001" in test_demo)
MessageIds == {"m1", "m2"}

\* values datetime.now().isoformat() may take; the server only stores the value
Timestamps == {"t1"}

\* plaintexts a client may send
Plaintexts == {"hello", "hi"}

----------------------------------------------------------------------------
(* Keys and mock crypto                                                    *)

\* hashlib.md5(name.encode()).hexdigest()[:16] for the names above
Md5Hex16(name) ==
    CASE name = "sugar"   -> "ada15bd1a5ddf0b7"
      [] name = "isaac"   -> "84311803c723cad9"
      [] name = "charlie" -> "bf779e0933a88280"

\* f"{name}_ed25519_key_{md5[:16]}"
ed25519_key(name) == <<name, "ed25519", "key", Md5Hex16(name)>>

\* f"{name}_x25519_key_{md5[:16]}"
x25519_key(name) == <<name, "x25519", "key", Md5Hex16(name)>>

\* recipient_key[:8], as fields: the names above are 5 and 7 characters long,
\* so the slice keeps the name, the "_" and the first 2 or 0 characters of "x25519"
Prefix8(key) ==
    CASE key[1] = "sugar"   -> <<"sugar", "x2">>
      [] key[1] = "isaac"   -> <<"isaac", "x2">>
      [] key[1] = "charlie" -> <<"charlie", "">>

\* base64.b64encode(message.encode()).decode()
b64encode(message) ==
    CASE message = "hello" -> "aGVsbG8="
      [] message = "hi"    -> "aGk="
      [] message = ""      -> ""

\* hmac.new(key, message, sha256).hexdigest()[:64]: the digest is 64 hex
\* characters, so the slice keeps all of it.  HMAC-SHA256 is taken as
\* collision free: the digest is the pair it was computed from.
hmac_sha256(key, message) == <<"hmac-sha256", key, message>>

\* MockClient.sign, with the client's ed25519 key
sign(key, message) == hmac_sha256(key, message)

\* MockClient.encrypt: f"encrypted_{b64}_{recipient_key[:8]}"
encrypt(message, recipient_key) ==
    <<"encrypted", b64encode(message)>> \o Prefix8(recipient_key)

\* base64.b64decode(text).decode(): the plaintext, or the exception raised.
\* "garbage" has 7 characters (binascii.Error: Incorrect padding); "////" decodes
\* to bytes that are not UTF-8 (UnicodeDecodeError).
b64decode(text) ==
    CASE text = "aGVsbG8=" -> [outcome |-> "returned", value |-> "hello"]
      [] text = "aGk="     -> [outcome |-> "returned", value |-> "hi"]
      [] text = ""         -> [outcome |-> "returned", value |-> ""]
      [] text = "garbage"  -> [outcome |-> "raised", value |-> "binascii.Error"]
      [] text = "////"     -> [outcome |-> "raised", value |-> "UnicodeDecodeError"]

\* decrypt that returns the base64 text without decoding it
decrypt_undecoded(encrypted_msg, sender_key) ==
    IF Len(encrypted_msg) >= 2 /\ encrypted_msg[1] = "encrypted"
    THEN IF Len(encrypted_msg) >= 3
         THEN [outcome |-> "returned", value |-> encrypted_msg[2]]
         ELSE [outcome |-> "returned", value |-> "DECRYPTION_FAILED"]
    ELSE [outcome |-> "returned", value |-> "DECRYPTION_FAILED"]

\* MockClient.decrypt: startswith("encrypted_") holds when the first field is
\* "encrypted" and another field follows; parts[1] is the second field.
\* sender_key is not used.
decrypt(encrypted_msg, sender_key) ==
    IF Len(encrypted_msg) >= 2 /\ encrypted_msg[1] = "encrypted"
    THEN IF Len(encrypted_msg) >= 3
         THEN b64decode(encrypted_msg[2])
         ELSE [outcome |-> "returned", value |-> "DECRYPTION_FAILED"]
    ELSE [outcome |-> "returned", value |-> "DECRYPTION_FAILED"]

----------------------------------------------------------------------------
(* Inputs of the server's operations                                       *)

\* public keys a caller may register
PublicKeys == {ed25519_key(n) : n \in ClientIds}

\* encrypted contents a caller may transmit
Contents == {encrypt("hello", x25519_key("isaac")), encrypt("hi", x25519_key("sugar"))}

\* signatures a caller may attach
Signatures == {sign(k, c) : k \in PublicKeys, c \in Contents}

----------------------------------------------------------------------------
(* MockServer                                                              *)

NoResponse == [type |-> "None"]

ServerPublicKey == <<"server", "ed25519", "key", "abcdef1234567890">>

\* MockClient.__init__ (contacts) of every client, and MockServer.__init__
Init ==
    /\ clients = <<>>
    /\ messages = <<>>
    /\ call = "__init__"
    /\ resp = NoResponse
    /\ contacts = [n \in ClientIds |-> <<>>]
    /\ cres = [method |-> "__init__", outcome |-> "None"]
    /\ disk = [written |-> FALSE]
    /\ inflight = [pc |-> "idle"]

\* d[k] = v on a Python dict
DictSet(d, k, v) == [x \in (DOMAIN d) \cup {k} |-> IF x = k THEN v ELSE d[x]]

\* register_client that forgets every other registration
register_client_forgets(client_id, public_key) ==
    /\ call' = "register_client"
    /\ clients' = [x \in {client_id} |-> public_key]
    /\ resp' = [type |-> "Registered", server_public_key |-> ServerPublicKey]
    /\ UNCHANGED messages

\* register_client that keeps the key of a client_id already registered
register_client_keeps_first(client_id, public_key) ==
    /\ call' = "register_client"
    /\ clients' = IF client_id \in DOMAIN clients
                  THEN clients
                  ELSE DictSet(clients, client_id, public_key)
    /\ resp' = [type |-> "Registered", server_public_key |-> ServerPublicKey]
    /\ UNCHANGED messages

\* register_client that also empties the message store
register_client_clears_store(client_id, public_key) ==
    /\ call' = "register_client"
    /\ clients' = DictSet(clients, client_id, public_key)
    /\ resp' = [type |-> "Registered", server_public_key |-> ServerPublicKey]
    /\ messages' = <<>>

\* MockServer.register_client
register_client(client_id, public_key) ==
    /\ call' = "register_client"
    /\ clients' = DictSet(clients, client_id, public_key)
    /\ resp' = [type |-> "Registered", server_public_key |-> ServerPublicKey]
    /\ UNCHANGED messages

\* the record built by MockServer.send_message
Record(message_id, sender_id, recipient_id, encrypted_content, timestamp, signature) ==
    [id |-> message_id, sender_id |-> sender_id, recipient_id |-> recipient_id,
     content |-> encrypted_content, timestamp |-> timestamp, signature |-> signature]

\* the accepting path of MockServer.send_message: append the record, return MessageSent
StoreMessage(sender_id, recipient_id, encrypted_content, signature, message_id) ==
    /\ resp' = [type |-> "MessageSent", message_id |-> message_id]
    /\ \E timestamp \in Timestamps :
            messages' = Append(messages,
                Record(message_id, sender_id, recipient_id,
                       encrypted_content, timestamp, signature))
    /\ UNCHANGED clients

\* the rejecting paths of MockServer.send_message: return an Error, store nothing
Reject(message) ==
    /\ resp' = [type |-> "Error", message |-> message]
    /\ UNCHANGED <<clients, messages>>

\* send_message without the signature comparison
send_message_unverified(sender_id, recipient_id, encrypted_content, signature, message_id) ==
    /\ call' = "send_message"
    /\ IF sender_id \notin DOMAIN clients
       THEN Reject(<<"Unknown sender: ", sender_id>>)
       ELSE StoreMessage(sender_id, recipient_id, encrypted_content, signature, message_id)

\* send_message that answers an unknown sender with the Error but stores the record
send_message_stores_unknown(sender_id, recipient_id, encrypted_content, signature, message_id) ==
    /\ call' = "send_message"
    /\ IF sender_id \notin DOMAIN clients
       THEN /\ \E timestamp \in Timestamps :
                    messages' = Append(messages,
                        Record(message_id, sender_id, recipient_id,
                               encrypted_content, timestamp, signature))
            /\ resp' = [type |-> "Error", message |-> <<"Unknown sender: ", sender_id>>]
            /\ UNCHANGED clients
       ELSE IF signature # hmac_sha256(clients[sender_id], encrypted_content)
            THEN Reject(<<"Invalid signature">>)
            ELSE StoreMessage(sender_id, recipient_id, encrypted_content, signature, message_id)

\* send_message that checks which key signed but not what was signed
send_message_key_only(sender_id, recipient_id, encrypted_content, signature, message_id) ==
    /\ call' = "send_message"
    /\ IF sender_id \notin DOMAIN clients
       THEN Reject(<<"Unknown sender: ", sender_id>>)
       ELSE IF signature[2] # clients[sender_id]
            THEN Reject(<<"Invalid signature">>)
            ELSE StoreMessage(sender_id, recipient_id, encrypted_content, signature, message_id)

\* send_message that puts the new record in front of the stored ones
send_message_prepends(sender_id, recipient_id, encrypted_content, signature, message_id) ==
    /\ call' = "send_message"
    /\ IF sender_id \notin DOMAIN clients
       THEN Reject(<<"Unknown sender: ", sender_id>>)
       ELSE IF signature # hmac_sha256(clients[sender_id], encrypted_content)
            THEN Reject(<<"Invalid signature">>)
            ELSE /\ \E timestamp \in Timestamps :
                        messages' = <<Record(message_id, sender_id, recipient_id,
                                             encrypted_content, timestamp, signature)>>
                                    \o messages
                 /\ resp' = [type |-> "MessageSent", message_id |-> message_id]
                 /\ UNCHANGED clients

\* send_message that turns away a recipient who is not registered
send_message_checks_recipient(sender_id, recipient_id, encrypted_content, signature, message_id) ==
    /\ call' = "send_message"
    /\ IF sender_id \notin DOMAIN clients
       THEN Reject(<<"Unknown sender: ", sender_id>>)
       ELSE IF signature # hmac_sha256(clients[sender_id], encrypted_content)
            THEN Reject(<<"Invalid signature">>)
            ELSE IF recipient_id \notin DOMAIN clients
                 THEN Reject(<<"Unknown recipient: ", recipient_id>>)
                 ELSE StoreMessage(sender_id, recipient_id, encrypted_content,
                                   signature, message_id)

\* MockServer.send_message
send_message(sender_id, recipient_id, encrypted_content, signature, message_id) ==
    /\ call' = "send_message"
    /\ IF sender_id \notin DOMAIN clients
       THEN Reject(<<"Unknown sender: ", sender_id>>)
       ELSE LET expected_signature == hmac_sha256(clients[sender_id], encrypted_content)
            IN  IF signature # expected_signature
                THEN Reject(<<"Invalid signature">>)
                ELSE StoreMessage(sender_id, recipient_id, encrypted_content,
                                  signature, message_id)

\* the list returned when only the newest matching record is kept
MessagesFor_newest(client_id) ==
    LET all == SelectSeq(messages, LAMBDA msg : msg.recipient_id = client_id)
    IN  IF all = <<>> THEN <<>> ELSE <<all[Len(all)]>>

\* the list built by MockServer.get_messages_for_client
MessagesFor(client_id) == SelectSeq(messages, LAMBDA msg : msg.recipient_id = client_id)

\* get_messages_for_client that removes what it returns from the store
get_messages_for_client_consumes(client_id) ==
    /\ call' = "get_messages_for_client"
    /\ resp' = [type |-> "Messages", messages |-> MessagesFor(client_id)]
    /\ messages' = SelectSeq(messages, LAMBDA msg : msg.recipient_id # client_id)
    /\ UNCHANGED clients

\* MockServer.get_messages_for_client
get_messages_for_client(client_id) ==
    /\ call' = "get_messages_for_client"
    /\ resp' = [type |-> "Messages", messages |-> MessagesFor(client_id)]
    /\ UNCHANGED <<clients, messages>>

\* MockServer.get_all_messages
get_all_messages ==
    /\ call' = "get_all_messages"
    /\ resp' = [type |-> "Messages", messages |-> messages]
    /\ UNCHANGED <<clients, messages>>

\* MockServer.save_data: json.dump of clients, messages and the time of saving
save_data ==
    /\ call' = "save_data"
    /\ \E timestamp \in Timestamps :
            disk' = [written |-> TRUE, clients |-> clients, messages |-> messages,
                     timestamp |-> timestamp]
    /\ resp' = NoResponse
    /\ UNCHANGED <<clients, messages>>

\* MockServer.__init__ run again: the server object a restarted process builds.
\* Nothing in MockServer reads server_data.json.
restart ==
    /\ call' = "__init__"
    /\ clients' = <<>>
    /\ messages' = <<>>
    /\ resp' = NoResponse
    /\ UNCHANGED disk

----------------------------------------------------------------------------
(* The server driven through its interface by arbitrary callers            *)

Register ==
    /\ \E c \in ClientIds, k \in PublicKeys : register_client(c, k)
    /\ UNCHANGED <<client_vars, env_vars>>

SendMessage ==
    /\ Len(messages) < MaxMessages
    /\ \E s \in ClientIds, r \in ClientIds, c \in Contents, g \in Signatures, i \in MessageIds :
            send_message(s, r, c, g, i)
    /\ UNCHANGED <<client_vars, env_vars>>

GetMessages ==
    /\ \E c \in ClientIds : get_messages_for_client(c)
    /\ UNCHANGED <<client_vars, env_vars>>

GetAllMessages ==
    /\ get_all_messages
    /\ UNCHANGED <<client_vars, env_vars>>

Next == Register \/ SendMessage \/ GetMessages \/ GetAllMessages

Spec == Init /\ [][Next]_vars

----------------------------------------------------------------------------
(* MockClient                                                              *)

Returned(method, value) == [method |-> method, outcome |-> "returned", value |-> value]

Raised(method, exception) == [method |-> method, outcome |-> "raised", value |-> exception]

\* MockClient.add_contact
add_contact(name, contact_name, contact_x25519_key) ==
    /\ contacts' = [contacts EXCEPT ![name] = DictSet(@, contact_name, contact_x25519_key)]
    /\ cres' = Returned("add_contact", "None")
    /\ UNCHANGED server_vars

\* MockClient.send_message that signs the plaintext and then encrypts
MockClient_send_message_signs_plaintext(name, recipient, message) ==
    IF recipient \notin DOMAIN contacts[name]
    THEN /\ cres' = Raised("send_message", "ValueError")
         /\ UNCHANGED <<server_vars, contacts>>
    ELSE LET signature == sign(ed25519_key(name), <<message>>)
             encrypted == encrypt(message, contacts[name][recipient])
         IN  /\ \E message_id \in MessageIds :
                    send_message(name, recipient, encrypted, signature, message_id)
             /\ cres' = Returned("send_message", "None")
             /\ UNCHANGED contacts

\* MockClient.send_message that, for a name not in contacts, encrypts for the key
\* that name would have and transmits
MockClient_send_message_no_lookup(name, recipient, message) ==
    LET recipient_key == IF recipient \in DOMAIN contacts[name]
                         THEN contacts[name][recipient]
                         ELSE x25519_key(recipient)
        encrypted == encrypt(message, recipient_key)
        signature == sign(ed25519_key(name), encrypted)
    IN  /\ \E message_id \in MessageIds :
               send_message(name, recipient, encrypted, signature, message_id)
        /\ cres' = Returned("send_message", "None")
        /\ UNCHANGED contacts

\* MockClient.send_message; str(uuid.uuid4()) is any of MessageIds
MockClient_send_message(name, recipient, message) ==
    IF recipient \notin DOMAIN contacts[name]
    THEN /\ cres' = Raised("send_message", "ValueError")
         /\ UNCHANGED <<server_vars, contacts>>
    ELSE LET encrypted == encrypt(message, contacts[name][recipient])
             signature == sign(ed25519_key(name), encrypted)
         IN  /\ \E message_id \in MessageIds :
                    send_message(name, recipient, encrypted, signature, message_id)
             /\ cres' = Returned("send_message", "None")
             /\ UNCHANGED contacts

\* the value of a method that returns a list
ReturnedList(method, entries) ==
    [method |-> method, outcome |-> "returned", value |-> "list", entries |-> entries]

\* the entry MockClient.receive_messages builds for a record
Entry(msg, decrypted) ==
    [sender_id |-> msg.sender_id, decrypted_content |-> decrypted,
     timestamp |-> msg.timestamp]

\* the loop of MockClient.receive_messages over the records still to handle:
\* the list returned, or the exception that decrypt raised
RECURSIVE ReceiveLoop(_, _, _)
ReceiveLoop(name, msgs, decrypted_messages) ==
    IF msgs = <<>>
    THEN ReturnedList("receive_messages", decrypted_messages)
    ELSE LET msg == Head(msgs)
         IN  IF msg.sender_id \in DOMAIN contacts[name]
             THEN LET decrypted == decrypt(msg.content, contacts[name][msg.sender_id])
                  IN  IF decrypted.outcome = "raised"
                      THEN Raised("receive_messages", decrypted.value)
                      ELSE ReceiveLoop(name, Tail(msgs),
                               Append(decrypted_messages, Entry(msg, decrypted.value)))
             ELSE ReceiveLoop(name, Tail(msgs), decrypted_messages)

\* MockClient.receive_messages
receive_messages(name) ==
    /\ get_messages_for_client(name)
    /\ cres' = ReceiveLoop(name, MessagesFor(name), <<>>)
    /\ UNCHANGED contacts

----------------------------------------------------------------------------
(* Clients that register, exchange keys and send through the server        *)

\* out-of-band key exchange as run_complete_demo does it: a client adds another
\* client under its name with that client's x25519 key
AddContact ==
    /\ \E n \in ClientIds : \E cn \in ClientIds \ {n} : add_contact(n, cn, x25519_key(cn))
    /\ UNCHANGED env_vars

ClientSend ==
    /\ Len(messages) < MaxMessages
    /\ \E n \in ClientIds, r \in ClientIds, m \in Plaintexts :
            MockClient_send_message(n, r, m)
    /\ UNCHANGED env_vars

NextClient == Register \/ AddContact \/ ClientSend

SpecClient == Init /\ [][NextClient]_vars

----------------------------------------------------------------------------
(* The demo's clients: they register, exchange keys, send and receive, and  *)
(* a third client who takes no part asks for its messages                  *)

ThirdClient == "charlie"

ClientReceive ==
    /\ \E n \in ClientIds : receive_messages(n)
    /\ UNCHANGED env_vars

GetMessagesAny ==
    /\ \E c \in ClientIds \cup {ThirdClient} : get_messages_for_client(c)
    /\ UNCHANGED <<client_vars, env_vars>>

NextDemo == Register \/ AddContact \/ ClientSend \/ ClientReceive \/ GetMessagesAny

SpecDemo == Init /\ [][NextDemo]_vars

----------------------------------------------------------------------------
(* The demo's clients, and registered senders that hand the server contents *)
(* that are no output of encrypt                                           *)

\* contents no encrypt produced: one whose second field is not base64, one
\* without the "encrypted_" prefix
Malformed == {<<"encrypted", "garbage", "isaac", "x2">>, <<"corrupted">>}

\* MockServer.send_message called by a registered sender with such a content
\* and the sender's signature of it
MalformedSend ==
    /\ Len(messages) < MaxMessages
    /\ \E s \in DOMAIN clients, r \in ClientIds, c \in Malformed, i \in MessageIds :
            send_message(s, r, c, sign(clients[s], c), i)
    /\ UNCHANGED <<client_vars, env_vars>>

NextMailbox == Register \/ AddContact \/ ClientSend \/ MalformedSend \/ ClientReceive

SpecMailbox == Init /\ [][NextMailbox]_vars

----------------------------------------------------------------------------
(* The demo's clients with a server that saves its data and is restarted    *)

SaveData ==
    /\ save_data
    /\ UNCHANGED <<client_vars, inflight>>

Restart ==
    /\ restart
    /\ UNCHANGED <<client_vars, inflight>>

NextPersist == Register \/ AddContact \/ ClientSend \/ SaveData \/ Restart

SpecPersist == Init /\ [][NextPersist]_vars

----------------------------------------------------------------------------
(* MockServer.send_message run statement by statement on one connection     *)
(* while register_client runs on another.  MockServer takes no lock, so a   *)
(* register_client may run between any two statements of send_message.      *)

Idle == [pc |-> "idle"]

\* the locals of the send_message call under way
Locals(pc, sender_id, recipient_id, encrypted_content, signature, message_id) ==
    [pc |-> pc, sender_id |-> sender_id, recipient_id |-> recipient_id,
     encrypted_content |-> encrypted_content, signature |-> signature,
     message_id |-> message_id]

\* send_message, "if sender_id not in self.clients": return the Error or go on
send_check_sender(sender_id, recipient_id, encrypted_content, signature, message_id) ==
    /\ inflight = Idle
    /\ IF sender_id \notin DOMAIN clients
       THEN /\ call' = "send_message"
            /\ Reject(<<"Unknown sender: ", sender_id>>)
            /\ UNCHANGED inflight
       ELSE /\ inflight' = Locals("verify", sender_id, recipient_id, encrypted_content,
                                  signature, message_id)
            /\ UNCHANGED server_vars

\* send_message, expected_signature from self.clients[sender_id] as it is now,
\* and "if signature != expected_signature": return the Error or go on
send_verify ==
    /\ inflight.pc = "verify"
    /\ LET expected_signature ==
               hmac_sha256(clients[inflight.sender_id], inflight.encrypted_content)
       IN  IF inflight.signature # expected_signature
           THEN /\ call' = "send_message"
                /\ Reject(<<"Invalid signature">>)
                /\ inflight' = Idle
           ELSE /\ inflight' = [inflight EXCEPT !.pc = "append"]
                /\ UNCHANGED server_vars

\* send_message, build the record, self.messages.append(message), return MessageSent
send_append ==
    /\ inflight.pc = "append"
    /\ call' = "send_message"
    /\ StoreMessage(inflight.sender_id, inflight.recipient_id, inflight.encrypted_content,
                    inflight.signature, inflight.message_id)
    /\ inflight' = Idle

\* a connection starts a send_message for a client that signs with its own key
SendCheckSender ==
    /\ Len(messages) < MaxMessages
    /\ \E s \in ClientIds, r \in ClientIds, c \in Contents, i \in MessageIds :
            send_check_sender(s, r, c, sign(ed25519_key(s), c), i)
    /\ UNCHANGED <<client_vars, disk>>

SendVerify ==
    /\ send_verify
    /\ UNCHANGED <<client_vars, disk>>

SendAppend ==
    /\ send_append
    /\ UNCHANGED <<client_vars, disk>>

NextConcurrent == Register \/ SendCheckSender \/ SendVerify \/ SendAppend

SpecConcurrent == Init /\ [][NextConcurrent]_vars

----------------------------------------------------------------------------
(* MockClient.encrypt and MockClient.decrypt called on their own             *)

\* plaintexts given to encrypt: those the clients send, and the empty string
RoundTripPlaintexts == Plaintexts \cup {""}

\* encrypt returned `text` for `message`
EncryptReturned(message, text) ==
    [method |-> "encrypt", outcome |-> "returned", value |-> "str",
     message |-> message, text |-> text]

\* name.encrypt(message, name.contacts[recipient])
MockClient_encrypt(name, message, recipient) ==
    /\ recipient \in DOMAIN contacts[name]
    /\ cres' = EncryptReturned(message, encrypt(message, contacts[name][recipient]))
    /\ UNCHANGED contacts

\* name.decrypt(encrypted_msg, name.contacts[sender]): what it returns or raises
MockClient_decrypt(name, encrypted_msg, sender) ==
    /\ sender \in DOMAIN contacts[name]
    /\ LET decrypted == decrypt(encrypted_msg, contacts[name][sender])
       IN  cres' = [method |-> "decrypt", outcome |-> decrypted.outcome,
                    value |-> decrypted.value]
    /\ UNCHANGED contacts

Encrypt ==
    /\ \E n \in ClientIds, r \in ClientIds, m \in RoundTripPlaintexts :
            MockClient_encrypt(n, m, r)
    /\ UNCHANGED <<server_vars, env_vars>>

\* a client decrypts the text encrypt has just returned
Decrypt ==
    /\ cres.method = "encrypt"
    /\ \E n \in ClientIds, s \in ClientIds : MockClient_decrypt(n, cres.text, s)
    /\ UNCHANGED <<server_vars, env_vars>>

NextCrypto == Register \/ AddContact \/ Encrypt \/ Decrypt

SpecCrypto == Init /\ [][NextCrypto]_vars

----------------------------------------------------------------------------
(* Properties of the relay server                                          *)

\* spec 4.2 verify(signing_public_key, message_bytes, signature), as the server computes it
verify(public_key, message_bytes, signature) ==
    signature = hmac_sha256(public_key, message_bytes)

Last(s) == s[Len(s)]

ErrorUnknownSender(sender_id) ==
    [type |-> "Error", message |-> <<"Unknown sender: ", sender_id>>]

ErrorInvalidSignature == [type |-> "Error", message |-> <<"Invalid signature">>]

MessageSent(message_id) == [type |-> "MessageSent", message_id |-> message_id]

\* C1: whenever a record enters the store, its sender is in the registry and its
\* signature verifies over its content against the key the registry holds for
\* that sender in the state the record is appended in.
C1_AdmittedSignatureVerified ==
    [][messages' # messages =>
        /\ Len(messages') = Len(messages) + 1
        /\ LET rec == Last(messages')
           IN  /\ rec.sender_id \in DOMAIN clients
               /\ verify(clients[rec.sender_id], rec.content, rec.signature)]_vars

\* a stored record whose signature does not verify against the key the registry
\* holds now for its sender: the key was replaced after the record was admitted
C1_Witness ==
    \E i \in 1..Len(messages) :
        /\ messages[i].sender_id \in DOMAIN clients
        /\ ~verify(clients[messages[i].sender_id], messages[i].content, messages[i].signature)

\* C2: a send_message whose sender_id is not in the registry returns the
\* unknown-sender Error and changes neither the message store nor the registry,
\* whatever the other arguments.
C2_UnknownSenderRejected ==
    [][call' = "send_message" =>
        \A s \in ClientIds \ DOMAIN clients :
            (\E r \in ClientIds, c \in Contents, g \in Signatures, i \in MessageIds :
                send_message(s, r, c, g, i)) =>
                    /\ resp' = ErrorUnknownSender(s)
                    /\ messages' = messages
                    /\ clients' = clients]_vars

\* an unknown sender was turned away by a server that has a registered client
\* and a stored record
C2_Witness ==
    /\ call = "send_message"
    /\ \E s \in ClientIds \ DOMAIN clients : resp = ErrorUnknownSender(s)
    /\ DOMAIN clients # {}
    /\ Len(messages) > 0

\* C3: for a registered sender, a send_message whose signature was made with a
\* key other than the sender's registered key, or over a content other than the
\* transmitted one, gets the invalid-signature Error and changes neither the
\* store nor the registry; so a send is accepted only with the signature of the
\* transmitted content under the registered key.  (k, c2) is what was signed,
\* c is the content transmitted.  Stated step by step: a send_message step
\* either is such a rejection, or is not the send of any wrongly signed message
\* from a registered sender.
C3_InvalidSignatureRejected ==
    [][call' = "send_message" =>
        \/ /\ resp' = ErrorInvalidSignature
           /\ messages' = messages
           /\ clients' = clients
        \/ \A s \in DOMAIN clients, c \in Contents, k \in PublicKeys, c2 \in Contents :
                (k # clients[s] \/ c2 # c) =>
                    ~(\E r \in ClientIds, i \in MessageIds :
                        send_message(s, r, c, sign(k, c2), i))]_vars

\* a registered sender's message was turned away for its signature
C3_Witness ==
    /\ call = "send_message"
    /\ resp = ErrorInvalidSignature
    /\ Len(messages) > 0

\* the ids of the stored records are pairwise distinct
DistinctIds ==
    \A j, k \in 1..Len(messages) : j # k => messages[j].id # messages[k].id

\* C4: a send_message whose message_id is the id of a stored record is rejected
\* with an Error and does not change the store, so the ids of the stored records
\* are pairwise distinct in every reachable state.
C4_DuplicateIdRejected ==
    /\ [][call' = "send_message" =>
            \A i \in {messages[j].id : j \in 1..Len(messages)} :
                (\E s \in ClientIds, r \in ClientIds, c \in Contents, g \in Signatures :
                    send_message(s, r, c, g, i)) =>
                        /\ resp'.type = "Error"
                        /\ messages' = messages]_vars
    /\ []DistinctIds

\* the k-th of the stored records addressed to client_id, counted from 1
Rank(client_id, i) ==
    Cardinality({j \in 1..i : messages[j].recipient_id = client_id})

\* result holds the stored records addressed to client_id, all of them and no
\* other, in the order of the store
IsMailbox(client_id, result) ==
    /\ Len(result) = Rank(client_id, Len(messages))
    /\ \A i \in 1..Len(messages) :
            messages[i].recipient_id = client_id =>
                result[Rank(client_id, i)] = messages[i]

C6_AppendOnly ==
    [][/\ Len(messages') >= Len(messages)
       /\ SubSeq(messages', 1, Len(messages)) = messages]_vars

\* two different records are stored and have been read back
C6_Witness ==
    /\ Len(messages) >= 2
    /\ messages[1] # messages[2]
    /\ call = "get_all_messages"

\* C7: get_messages_for_client changes neither the store nor the registry, and
\* the same call made again from the state it leaves returns the same records.
C7_GetDoesNotDelete ==
    [][call' = "get_messages_for_client" =>
        \A c \in ClientIds :
            get_messages_for_client(c) =>
                /\ messages' = messages
                /\ clients' = clients
                /\ MessagesFor(c)' = resp'.messages]_vars

\* a non-empty mailbox was returned and its records are still in the store
C7_Witness ==
    /\ call = "get_messages_for_client"
    /\ Len(resp.messages) >= 1
    /\ \A k \in 1..Len(resp.messages) :
            \E i \in 1..Len(messages) : messages[i] = resp.messages[k]

\* C8: a send_message from a registered sender with the signature of the content
\* under its registered key returns MessageSent and appends the record, for every
\* recipient_id, registered or not.
C8_RecipientNotInspected ==
    [][call' = "send_message" =>
        \A s \in DOMAIN clients, r \in ClientIds, c \in Contents, i \in MessageIds :
            send_message(s, r, c, sign(clients[s], c), i) =>
                /\ resp' = MessageSent(i)
                /\ \E t \in Timestamps :
                        messages' = Append(messages,
                            Record(i, s, r, c, t, sign(clients[s], c)))
                /\ clients' = clients]_vars

\* a message to a recipient who is not registered was accepted and stored
C8_Witness ==
    /\ call = "send_message"
    /\ resp.type = "MessageSent"
    /\ Len(messages) > 0
    /\ Last(messages).recipient_id \notin DOMAIN clients

\* C9: no step removes a client_id from the registry, and register_client on an
\* absent client_id inserts it with the given key and returns Registered.
C9_RegisteredStays ==
    [][/\ DOMAIN clients \subseteq DOMAIN clients'
       /\ call' = "register_client" =>
            \A c \in ClientIds \ DOMAIN clients, k \in PublicKeys :
                register_client(c, k) =>
                    /\ c \in DOMAIN clients'
                    /\ clients'[c] = k
                    /\ resp'.type = "Registered"]_vars

\* both clients are registered, one after the other, and the server went on working
C9_Witness ==
    /\ DOMAIN clients = ClientIds
    /\ Len(messages) > 0
    /\ call = "get_messages_for_client"

\* C10: when a client that is registered under its own ed25519 key sends to a
\* name of its contact store, the content transmitted is the encryption of the
\* message for the contact's key, the signature is the client's signature of that
\* content, the server returns MessageSent with the message id, and the store
\* grows by exactly that one record.
C10_ClientSendAccepted ==
    [][call' = "send_message" =>
        \A n \in DOMAIN clients :
            clients[n] = ed25519_key(n) =>
                \A r \in DOMAIN contacts[n] : \A m \in Plaintexts :
                    MockClient_send_message(n, r, m) =>
                        LET encrypted == encrypt(m, contacts[n][r])
                        IN  /\ resp'.type = "MessageSent"
                            /\ \E t \in Timestamps :
                                    messages' = Append(messages,
                                        Record(resp'.message_id, n, r, encrypted, t,
                                               sign(ed25519_key(n), encrypted)))
                            /\ cres' = Returned("send_message", "None")]_vars

\* a client's send was accepted after another send had been turned away or stored
C10_Witness ==
    /\ cres = Returned("send_message", "None")
    /\ resp.type = "MessageSent"
    /\ Len(messages) >= 2
    /\ Last(messages).id = resp.message_id
    /\ Last(messages).sender_id \in DOMAIN clients
    /\ clients[Last(messages).sender_id] = ed25519_key(Last(messages).sender_id)
    /\ Last(messages).recipient_id \in DOMAIN contacts[Last(messages).sender_id]

----------------------------------------------------------------------------
(* Properties of the clients                                               *)

\* the state of the scenario: sugar and isaac are registered under their own
\* keys, each has the other's x25519 key, and the store holds the one record
\* of sugar's send of "hello" to isaac
HelloScenario ==
    /\ DOMAIN clients = {"sugar", "isaac"}
    /\ \A n \in DOMAIN clients : clients[n] = ed25519_key(n)
    /\ "isaac" \in DOMAIN contacts["sugar"]
    /\ contacts["sugar"]["isaac"] = x25519_key("isaac")
    /\ "sugar" \in DOMAIN contacts["isaac"]
    /\ contacts["isaac"]["sugar"] = x25519_key("sugar")
    /\ Len(messages) = 1
    /\ messages[1].sender_id = "sugar"
    /\ messages[1].recipient_id = "isaac"
    /\ messages[1].content = encrypt("hello", contacts["sugar"]["isaac"])

\* what isaac's receive returns in the scenario
HelloReceived(timestamp) ==
    ReturnedList("receive_messages",
        <<[sender_id |-> "sugar", decrypted_content |-> "hello", timestamp |-> timestamp]>>)

C12_UnknownContactRaises ==
    [][cres'.method = "send_message" =>
        \A n \in ClientIds :
            \A r \in ClientIds \ DOMAIN contacts[n] :
                (\E m \in Plaintexts : MockClient_send_message(n, r, m)) =>
                    /\ cres' = Raised("send_message", "ValueError")
                    /\ UNCHANGED <<clients, messages, call, resp>>]_vars

\* a send to an unknown contact failed on a registered client, after a record was
\* stored for somebody
C12_Witness ==
    /\ cres = Raised("send_message", "ValueError")
    /\ DOMAIN clients # {}
    /\ Len(messages) > 0

\* C13: when the server answers a client's send with an Error (unknown sender or
\* invalid signature), MockClient.send_message reports a failure to its caller:
\* it raises, and does not return as an accepted send does.
C13_RejectionReported ==
    [][(cres'.method = "send_message" /\ call' = "send_message") =>
        \A n \in ClientIds :
            \A r \in DOMAIN contacts[n] :
                (\E m \in Plaintexts :
                    MockClient_send_message(n, r, m) /\ resp'.type = "Error") =>
                        /\ cres'.outcome = "raised"
                        /\ cres' # Returned("send_message", "None")]_vars

\* the records of name's mailbox that name can decrypt: the sender is in its
\* contact store and decrypt returns a plaintext
Decryptable(name, msg) ==
    /\ msg.recipient_id = name
    /\ msg.sender_id \in DOMAIN contacts[name]
    /\ LET d == decrypt(msg.content, contacts[name][msg.sender_id])
       IN  d.outcome = "returned" /\ d.value # "DECRYPTION_FAILED"

\* C14: receive_messages is never aborted by a record that fails to decrypt: it
\* returns its list, and the list holds every record of the mailbox that comes
\* from a known sender and decrypts, with its plaintext.
C14_DecryptFailureIsolated ==
    [][cres'.method = "receive_messages" =>
        \A n \in ClientIds :
            receive_messages(n) =>
                /\ cres'.outcome = "returned"
                /\ \A i \in 1..Len(messages) :
                        Decryptable(n, messages[i]) =>
                            \E k \in 1..Len(cres'.entries) :
                                cres'.entries[k] =
                                    Entry(messages[i],
                                          decrypt(messages[i].content,
                                                  contacts[n][messages[i].sender_id]).value)]_vars

\* server_data.json holds the registry and the store as they are now
Saved ==
    /\ disk.written
    /\ disk.clients = clients
    /\ disk.messages = messages

\* C15: a restart of the server whose registry and store are saved keeps them:
\* registry and message log are the same after the restart as before, and
\* get_messages_for_client returns for every client what it returned before.
C15_RestartKeepsState ==
    [][(call' = "__init__" /\ restart /\ Saved /\ Len(messages) > 0) =>
        /\ clients' = clients
        /\ messages' = messages
        /\ \A c \in ClientIds : MessagesFor(c)' = MessagesFor(c)]_vars

\* a stored record is whole: it has every field of a record
WholeRecord(rec) ==
    DOMAIN rec = {"id", "sender_id", "recipient_id", "content", "timestamp", "signature"}

\* C16: with register_client running between the statements of send_message, a
\* record is appended only if its signature verifies against the key the
\* registry holds for its sender at the moment of the append, and every record
\* in the store is whole.
C16_AtomicAdmission ==
    [][inflight.pc = "append" /\ inflight'.pc = "idle" =>
        /\ inflight.sender_id \in DOMAIN clients
        /\ verify(clients[inflight.sender_id], inflight.encrypted_content,
                  inflight.signature)
        /\ \A i \in 1..Len(messages') : WholeRecord(messages'[i])]_vars

\* C17: decrypting the text that encrypt returned for a plaintext and a
\* recipient key returns exactly that plaintext, whichever client decrypts and
\* whichever contact key it passes.
C17_RoundTrip ==
    [][cres.method = "encrypt" /\ cres'.method = "decrypt" =>
        /\ cres'.outcome = "returned"
        /\ cres'.value = cres.message]_vars

\* a non-empty plaintext has come back from decrypt
C17_Witness ==
    /\ cres.method = "decrypt"
    /\ cres.outcome = "returned"
    /\ cres.value = "hello"

\* C18: the contents stored for any two sends by the same client differ, also
\* when the plaintext and the recipient are the same.
C18_EnvelopesDistinct ==
    \A i \in 1..Len(messages) : \A j \in 1..Len(messages) :
        (i # j /\ messages[i].sender_id = messages[j].sender_id) =>
            messages[i].content # messages[j].content

\* the keys the server holds: the signing keys of its registry
ServerHeldKeys == {clients[c] : c \in DOMAIN clients}

\* C19: no key the server holds decrypts the content of a stored record:
\* decrypt with such a key never returns a plaintext.
C19_ServerCannotDecrypt ==
    \A i \in 1..Len(messages) : \A k \in ServerHeldKeys :
        LET d == decrypt(messages[i].content, k)
        IN  d.outcome = "returned" => d.value \notin Plaintexts

\* the number of records among the first i of the store that are addressed to
\* name and come from a sender in name's contact store
KnownRank(name, i) ==
    Cardinality({j \in 1..i : /\ messages[j].recipient_id = name
                              /\ messages[j].sender_id \in DOMAIN contacts[name]})

\* C20: receive_messages returns a list with one entry for each record of the
\* client's mailbox whose sender is in its contact store, in the order of the
\* mailbox, each with the record's sender_id and timestamp; records of other
\* senders give no entry and no exception.
C20_ReceiveKnownSenders ==
    [][cres'.method = "receive_messages" =>
        \A n \in ClientIds :
            receive_messages(n) =>
                /\ cres'.outcome = "returned"
                /\ Len(cres'.entries) = KnownRank(n, Len(messages))
                /\ \A i \in 1..Len(messages) :
                        (/\ messages[i].recipient_id = n
                         /\ messages[i].sender_id \in DOMAIN contacts[n]) =>
                            /\ cres'.entries[KnownRank(n, i)].sender_id = messages[i].sender_id
                            /\ cres'.entries[KnownRank(n, i)].timestamp = messages[i].timestamp]_vars

\* C21: register_client on a client_id already in the registry puts the given
\* key in place of the stored one, returns Registered and leaves the store as it
\* is; and a send_message for a registered sender is accepted, appending after
\* the records already stored, when it is signed with the key the registry holds
\* now, and rejected as an invalid signature, with the store unchanged, when it
\* is signed with any other key, the replaced one included.  The send half is
\* stated step by step: for every sender, key and content, a send_message step
\* either has the outcome that the key calls for, or is not such a send.
C21_ReRegisterReplaces ==
    [][/\ call' = "register_client" =>
            \A c \in DOMAIN clients, k \in PublicKeys :
                register_client(c, k) =>
                    /\ clients'[c] = k
                    /\ resp'.type = "Registered"
                    /\ messages' = messages
       /\ call' = "send_message" =>
            \A s \in DOMAIN clients, k \in PublicKeys, c \in Contents :
                \/ IF k = clients[s]
                   THEN /\ resp'.type = "MessageSent"
                        /\ Len(messages') = Len(messages) + 1
                        /\ SubSeq(messages', 1, Len(messages)) = messages
                   ELSE /\ resp' = ErrorInvalidSignature
                        /\ messages' = messages
                \/ ~(\E r \in ClientIds, i \in MessageIds :
                        send_message(s, r, c, sign(k, c), i))]_vars

\* a sender's record admitted under a key since replaced is still first in the
\* store, and a send signed with the sender's new key has just been accepted
C21_Witness ==
    /\ call = "send_message"
    /\ resp.type = "MessageSent"
    /\ Len(messages) = 2
    /\ messages[1].sender_id = messages[2].sender_id
    /\ ~verify(clients[messages[1].sender_id], messages[1].content, messages[1].signature)
    /\ verify(clients[messages[2].sender_id], messages[2].content, messages[2].signature)

\* C22: register_client(client_id, key) leaves the message store and every
\* other registry entry as they are, adding or changing only the entry of
\* client_id; send_message, accepted or rejected, leaves the registry as it is,
\* and an accepted send_message makes the store exactly one record longer.
C22_DisjointEffects ==
    [][/\ call' = "register_client" =>
            \A c \in ClientIds, k \in PublicKeys :
                register_client(c, k) =>
                    /\ messages' = messages
                    /\ DOMAIN clients' = DOMAIN clients \cup {c}
                    /\ \A x \in DOMAIN clients \ {c} : clients'[x] = clients[x]
       /\ call' = "send_message" =>
            /\ clients' = clients
            /\ resp'.type = "MessageSent" =>
                    /\ Len(messages') = Len(messages) + 1
                    /\ SubSeq(messages', 1, Len(messages)) = messages]_vars

\* register_client has run on a server that holds another registration and a record
C22_Witness ==
    /\ call = "register_client"
    /\ Cardinality(DOMAIN clients) = 2
    /\ Len(messages) >= 1

====
